---- MODULE Spec2Model ----
(***************************************************************************)
(* The persistence layer of src/database.py (DatabaseManager, the User and *)
(* GameVersion tables, UserRepository, GameVersionRepository) and the      *)
(* /register route of src/main.py, as a state machine.                     *)
(*                                                                         *)
(* The storage engine is the committed tables `versions` and `users`;      *)
(* every worker owns one scoped session (db.session) whose uncommitted     *)
(* writes live in sess[w] until a commit publishes them or a rollback or a *)
(* close discards them.  One step of the model is one statement sent to    *)
(* the storage engine together with the Python code that follows it up to  *)
(* the next statement.                                                     *)
(***************************************************************************)
EXTENDS Integers, Sequences, FiniteSets, TLC

\* ------------------------------------------------------------------ bounds
MaxVersionId == 2      \* ids the game_versions autoincrement may hand out
MaxUserId == 2         \* ids the users autoincrement may hand out

Workers == {1, 2}

Usernames == {"bob", "alice"}
Passwords == {"pw", "wrongpw"}
CrystalArgs == {0, -1}
VersionLabels == {<<"1.0.0", "Initial Release">>, <<"1.1.0", "Patch">>}

VersionIdArgs == 1..(MaxVersionId + 1)
UserIdArgs == 1..(MaxUserId + 1)

\* keyword mappings handed to update_version / update_user
VersionKwargs ==
    { {<<"is_active", TRUE>>},
      {<<"is_active", FALSE>>},
      {<<"version_name", "Patch">>},
      {<<"nonexistent_field", 1>>},
      {<<"to_dict", 1>>},
      {<<"nonexistent_field", 1>>, <<"version_name", "Patch">>} }
UserKwargs ==
    { {<<"crystal", -1>>},
      {<<"is_subscription", TRUE>>},
      {<<"nonexistent_field", 1>>},
      {<<"to_dict", 1>>},
      {<<"nonexistent_field", 1>>, <<"is_subscription", TRUE>>} }

VARIABLES
    initialized,   \* DatabaseManager._initialized
    initLog,       \* init_app so far: whether create_all has created the tables, how often
                   \* the seed was inserted, the version table the seed step found, and
                   \* whether the last call raised
    versions,      \* committed rows of game_versions
    users,         \* committed rows of users
    nextVid,       \* next autoincrement id of game_versions
    nextUid,       \* next autoincrement id of users
    vlock,         \* the worker holding the write lock on game_versions, if any
    pc,            \* pc[w]: where worker w stands in its current call
    op,            \* op[w]: the call worker w runs, with its arguments
    ret,           \* ret[w]: what the call returned or raised
    sess,          \* sess[w]: the worker's session: uncommitted view, loaded row
    stat,          \* stat[w]: scope entries, closes, commits, rollbacks, query attempts and
                   \* failed statements of the call, and whether it started while
                   \* another worker was writing versions
    pre            \* pre[w]: the committed tables when the call started

mgrVars == <<initialized, initLog>>
storeVars == <<versions, users, nextVid, nextUid, vlock>>
workerVars == <<pc, op, ret, sess, stat, pre>>
vars == <<initialized, initLog, versions, users, nextVid, nextUid, vlock,
          pc, op, ret, sess, stat, pre>>

\* ------------------------------------------------------------------ entities
\* User (created_at is utcnow at insert; the insertion tick is the row's id)
User(id, username, password_hash, is_subscription, crystal) ==
    [id |-> id, username |-> username, password_hash |-> password_hash,
     is_subscription |-> is_subscription, crystal |-> crystal, created_at |-> id]

\* GameVersion (release_date is utcnow at insert; the insertion tick is the row's id)
GameVersion(id, version_number, version_name, is_active) ==
    [id |-> id, version_number |-> version_number, version_name |-> version_name,
     release_date |-> id, is_active |-> is_active]

UserColumns == {"id", "username", "password_hash", "is_subscription", "crystal", "created_at"}
VersionColumns == {"id", "version_number", "version_name", "release_date", "is_active"}

\* the external password hashing capability (werkzeug), as main.py passes it
generate_password_hash(password) == <<"hash", password>>
check_password_hash(hash, password) == hash = <<"hash", password>>

\* ------------------------------------------------------------------ results
None == [kind |-> "absent"]
Pending == [kind |-> "pending"]
Row(r) == [kind |-> "row", row |-> r]
Rows(s) == [kind |-> "rows", rows |-> s]
Bool(b) == [kind |-> "bool", val |-> b]
Raised(e) == [kind |-> "raised", err |-> e]

NoCall == [name |-> "none"]
NoStat == [entered |-> 0, closes |-> 0, commits |-> 0, rollbacks |-> 0, attempts |-> 0,
           failures |-> 0, overlap |-> FALSE]
NoSess == [tx |-> FALSE, view |-> {}, loaded |-> None]
NoInit == [schema |-> FALSE, seeds |-> 0, found |-> {}, raised |-> FALSE]
NoPre == [versions |-> {}, users |-> {}, initLog |-> NoInit]

\* ------------------------------------------------------------------ queries
\* .filter(...).first() on a primary key or a unique column: the row or None
First(S) == IF S = {} THEN None ELSE Row(CHOOSE r \in S : \A q \in S : r.id <= q.id)

ActiveRows(table) == {v \in table : v.is_active}

\* .order_by(release_date.desc()).all()
RECURSIVE OrderByReleaseDateDesc(_)
OrderByReleaseDateDesc(table) ==
    IF table = {} THEN <<>>
    ELSE LET top == CHOOSE r \in table : \A q \in table : q.release_date <= r.release_date
         IN <<top>> \o OrderByReleaseDateDesc(table \ {top})

\* .filter(is_active == True).order_by(release_date.desc()).first()
LatestActive(table) ==
    LET s == OrderByReleaseDateDesc(ActiveRows(table))
    IN IF s = <<>> THEN None ELSE Row(s[1])

\* session.query(GameVersion).update({GameVersion.is_active: False})
DeactivateAll(table) == {[v EXCEPT !.is_active = FALSE] : v \in table}

\* ------------------------------------------------------------------ manager
\* _create_default_data without the `if not GameVersion.query.first()` test
InitAppOk_AlwaysSeeds ==
    /\ ~initialized
    /\ initialized' = TRUE
    /\ versions' = versions \cup {GameVersion(nextVid, "1.0.0", "Initial Release", TRUE)}
    /\ nextVid' = nextVid + 1
    /\ initLog' = [schema |-> TRUE, seeds |-> initLog.seeds + 1,
                   found |-> versions, raised |-> FALSE]
    /\ UNCHANGED <<users, nextUid, vlock>>
    /\ UNCHANGED <<pc, op, ret, sess, stat, pre>>

\* init_app, not yet initialized, nothing raises:
\* db.create_all(); self._create_default_data(); self._initialized = True
InitAppOk ==
    /\ ~initialized
    /\ initialized' = TRUE
    /\ IF versions = {}
       THEN /\ versions' = {GameVersion(nextVid, "1.0.0", "Initial Release", TRUE)}
            /\ nextVid' = nextVid + 1
            /\ initLog' = [schema |-> TRUE, seeds |-> initLog.seeds + 1,
                           found |-> versions, raised |-> FALSE]
       ELSE /\ UNCHANGED <<versions, nextVid>>
            /\ initLog' = [schema |-> TRUE, seeds |-> initLog.seeds,
                           found |-> versions, raised |-> FALSE]
    /\ UNCHANGED <<users, nextUid, vlock>>
    /\ UNCHANGED workerVars

\* an exception in db.init_app, create_all or the seed: logged and re-raised,
\* _initialized stays False; the tables exist when create_all got through
InitAppFail ==
    /\ ~initialized
    /\ \E created \in BOOLEAN :
         initLog' = [initLog EXCEPT !.schema = @ \/ created, !.raised = TRUE]
    /\ UNCHANGED <<initialized>>
    /\ UNCHANGED storeVars
    /\ UNCHANGED workerVars

\* ------------------------------------------------------------------ scopes
\* what a call has done to its scoped session so far
Enter(s) == [s EXCEPT !.entered = @ + 1]
Close(s) == [s EXCEPT !.closes = @ + 1]
Commit(s) == [s EXCEPT !.commits = @ + 1]
Rollback(s) == [s EXCEPT !.rollbacks = @ + 1]
Attempt(s) == [s EXCEPT !.attempts = @ + 1]
Failure(s) == [s EXCEPT !.failures = @ + 1]

\* session(): the body returned: finally close
SessionReturn(s) == Close(s)
\* session(): the body raised a SQLAlchemyError: rollback, re-raise, finally close
SessionStorageError(s) == Close(Rollback(s))
\* session() without its finally clause
SessionOtherError_NoFinally(s) == s

\* session(): the body raised anything else: finally close
SessionOtherError(s) == Close(s)
\* transaction(): the body returned: commit
TransactionReturn(s) == Commit(s)
\* transaction(): the body or the commit raised a SQLAlchemyError: rollback, re-raise
TransactionStorageError(s) == Rollback(s)

ScopeOpen(w) == stat[w].entered > stat[w].closes

\* the call of worker w is over: its result, its scope counts, a clean session
Return(w, r, s) ==
    /\ pc' = [pc EXCEPT ![w] = "done"]
    /\ ret' = [ret EXCEPT ![w] = r]
    /\ stat' = [stat EXCEPT ![w] = s]
    /\ sess' = [sess EXCEPT ![w] = NoSess]
    /\ UNCHANGED <<op, pre>>

\* the call of worker w goes on at `label`
Goto(w, label, s, ss) ==
    /\ pc' = [pc EXCEPT ![w] = label]
    /\ stat' = [stat EXCEPT ![w] = s]
    /\ sess' = [sess EXCEPT ![w] = ss]
    /\ UNCHANGED <<op, ret, pre>>

\* ------------------------------------------------------------------ calls
RetryReads == {"get_user_by_id", "get_user_by_username", "get_latest_version"}
PlainReads == {"authenticate_user", "get_all_users", "get_version_by_id", "get_all_versions"}

\* the first statement of the call o
FirstPc(o) ==
    CASE o.name \in RetryReads \cup PlainReads -> "read1"
      [] o.name = "create_user" -> "cu_commit"
      [] o.name = "update_user" -> "uu_select"
      [] o.name = "delete_user" -> "du_select"
      [] o.name = "create_version" -> IF o.is_active THEN "cv_update" ELSE "cv_commit"
      [] o.name = "set_active_version" -> "sa_update"
      [] o.name = "update_version" -> "uv_select"
      [] o.name = "delete_version" -> "dv_select"

UserReadCalls ==
    {[name |-> "get_user_by_id", route |-> "direct", id |-> i] : i \in UserIdArgs}
    \cup {[name |-> "get_user_by_username", route |-> "direct", username |-> u] : u \in Usernames}
    \cup {[name |-> "get_all_users", route |-> "direct"]}
    \cup {[name |-> "authenticate_user", route |-> "direct", username |-> u, password |-> p,
           verify |-> f] : u \in Usernames, p \in Passwords,
                           f \in {"check_password_hash", "raises"}}

VersionReadCalls ==
    {[name |-> "get_latest_version", route |-> "direct"],
     [name |-> "get_all_versions", route |-> "direct"]}
    \cup {[name |-> "get_version_by_id", route |-> "direct", id |-> i] : i \in VersionIdArgs}

InFlight(w) == pc[w] \notin {"idle", "done", "responded"}

\* another worker is in the middle of create_version(is_active=True) or
\* set_active_version, begun on a table with exactly one active row
WriterInFlight(w) ==
    \E v \in Workers \ {w} :
        /\ InFlight(v)
        /\ op[v].name = "set_active_version"
           \/ (op[v].name = "create_version" /\ op[v].is_active)
        /\ Cardinality(ActiveRows(pre[v].versions)) = 1

\* worker w, idle, starts the repository call o
Call(w, o) ==
    /\ initialized
    /\ pc[w] = "idle"
    /\ pc' = [pc EXCEPT ![w] = FirstPc(o)]
    /\ op' = [op EXCEPT ![w] = o]
    /\ ret' = [ret EXCEPT ![w] = Pending]
    /\ stat' = [stat EXCEPT ![w] = [NoStat EXCEPT !.overlap = WriterInFlight(w)]]
    /\ sess' = [sess EXCEPT ![w] = NoSess]
    /\ pre' = [pre EXCEPT ![w] = [versions |-> versions, users |-> users,
                                  initLog |-> initLog]]
    /\ UNCHANGED mgrVars
    /\ UNCHANGED storeVars

\* init_app without the `if self._initialized` guard: create_all and the seed run again
InitAppAgain_NoGuard(w) ==
    /\ initialized
    /\ pc[w] = "idle"
    /\ pc' = [pc EXCEPT ![w] = "done"]
    /\ op' = [op EXCEPT ![w] = [name |-> "init_app", route |-> "direct"]]
    /\ ret' = [ret EXCEPT ![w] = None]
    /\ stat' = [stat EXCEPT ![w] = NoStat]
    /\ sess' = [sess EXCEPT ![w] = NoSess]
    /\ pre' = [pre EXCEPT ![w] = [versions |-> versions, users |-> users,
                                  initLog |-> initLog]]
    /\ IF versions = {}
       THEN /\ versions' = {GameVersion(nextVid, "1.0.0", "Initial Release", TRUE)}
            /\ nextVid' = nextVid + 1
            /\ initLog' = [initLog EXCEPT !.seeds = @ + 1]
       ELSE UNCHANGED <<versions, nextVid, initLog>>
    /\ UNCHANGED <<initialized, users, nextUid, vlock>>

\* init_app on the initialized manager: `if self._initialized:` logs and returns
InitAppAgain(w) ==
    /\ initialized
    /\ pc[w] = "idle"
    /\ pc' = [pc EXCEPT ![w] = "done"]
    /\ op' = [op EXCEPT ![w] = [name |-> "init_app", route |-> "direct"]]
    /\ ret' = [ret EXCEPT ![w] = None]
    /\ stat' = [stat EXCEPT ![w] = NoStat]
    /\ sess' = [sess EXCEPT ![w] = NoSess]
    /\ pre' = [pre EXCEPT ![w] = [versions |-> versions, users |-> users,
                                  initLog |-> initLog]]
    /\ UNCHANGED mgrVars
    /\ UNCHANGED storeVars

\* the caller has taken the result; the worker is idle again
Ack(w) ==
    /\ \/ pc[w] = "done" /\ op[w].route \in {"direct", "again"}
       \/ pc[w] = "responded"
    /\ pc' = [pc EXCEPT ![w] = "idle"]
    /\ op' = [op EXCEPT ![w] = NoCall]
    /\ ret' = [ret EXCEPT ![w] = Pending]
    /\ stat' = [stat EXCEPT ![w] = NoStat]
    /\ pre' = [pre EXCEPT ![w] = NoPre]
    /\ UNCHANGED sess
    /\ UNCHANGED mgrVars
    /\ UNCHANGED storeVars

\* ------------------------------------------------------------------ reads
RECURSIVE OrderById(_)
OrderById(table) ==
    IF table = {} THEN <<>>
    ELSE LET low == CHOOSE r \in table : \A q \in table : r.id <= q.id
         IN <<low>> \o OrderById(table \ {low})

\* User.to_dict()
to_dict(user) ==
    [id |-> user.id, username |-> user.username, is_subscription |-> user.is_subscription,
     crystal |-> user.crystal, created_at |-> user.created_at]

\* authenticate_user that takes any found user for authenticated
Authenticate_NoVerify(found, o) ==
    IF found = None
    THEN [kind |-> "auth", status |-> FALSE, message |-> "not found", user |-> None]
    ELSE [kind |-> "auth", status |-> TRUE, message |-> "ok", user |-> found,
          user_data |-> to_dict(found.row)]

\* authenticate_user once the user query has answered `found`
Authenticate(found, o) ==
    IF found = None
    THEN [kind |-> "auth", status |-> FALSE, message |-> "not found", user |-> None]
    ELSE IF ~check_password_hash(found.row.password_hash, o.password)
         THEN [kind |-> "auth", status |-> FALSE, message |-> "wrong password", user |-> None]
         ELSE [kind |-> "auth", status |-> TRUE, message |-> "ok", user |-> found,
               user_data |-> to_dict(found.row)]

\* the query of the read call o on the tables V and U, and what the call makes of it
Query(o, V, U) ==
    CASE o.name = "get_user_by_id" -> First({u \in U : u.id = o.id})
      [] o.name = "get_user_by_username" -> First({u \in U : u.username = o.username})
      [] o.name = "get_all_users" -> Rows(OrderById(U))
      [] o.name = "authenticate_user" ->
            Authenticate(First({u \in U : u.username = o.username}), o)
      [] o.name = "get_latest_version" -> LatestActive(V)
      [] o.name = "get_version_by_id" -> First({v \in V : v.id = o.id})
      [] o.name = "get_all_versions" -> Rows(OrderByReleaseDateDesc(V))

\* the injected verify function is called (the user exists) and raises
VerifyRaises(o, U) ==
    /\ o.name = "authenticate_user"
    /\ o.verify = "raises"
    /\ \E u \in U : u.username = o.username

\* first attempt: the query answers, the scope closes, the call returns
ReadFirstOk(w) ==
    /\ pc[w] = "read1"
    /\ ~VerifyRaises(op[w], users)
    /\ Return(w, Query(op[w], versions, users), SessionReturn(Attempt(Enter(stat[w]))))
    /\ UNCHANGED mgrVars
    /\ UNCHANGED storeVars

\* authenticate_user: the verify function raises inside the scope
ReadVerifyRaises(w) ==
    /\ pc[w] = "read1"
    /\ VerifyRaises(op[w], users)
    /\ Return(w, Raised("VerifyError"), SessionOtherError(Attempt(Enter(stat[w]))))
    /\ UNCHANGED mgrVars
    /\ UNCHANGED storeVars

\* first attempt of a retrying read fails with OperationalError: the scope rolls
\* back and closes, the except clause takes over
ReadFirstTransient(w) ==
    /\ pc[w] = "read1"
    /\ op[w].name \in RetryReads
    /\ Goto(w, "read2", SessionStorageError(Failure(Attempt(Enter(stat[w])))), NoSess)
    /\ UNCHANGED mgrVars
    /\ UNCHANGED storeVars

\* first attempt fails with an error no except clause of the call catches
ReadFirstError(w) ==
    /\ pc[w] = "read1"
    /\ \E e \in {"OperationalError", "SQLAlchemyError"} :
         /\ e = "OperationalError" => op[w].name \in PlainReads
         /\ Return(w, Raised(e), SessionStorageError(Failure(Attempt(Enter(stat[w])))))
    /\ UNCHANGED mgrVars
    /\ UNCHANGED storeVars

\* a retry that returns without issuing the query again
ReadRetryOk_NoQuery(w) ==
    /\ pc[w] = "read2"
    /\ Return(w, None, SessionReturn(Attempt(Rollback(Enter(stat[w])))))
    /\ UNCHANGED mgrVars
    /\ UNCHANGED storeVars

\* the retry: a fresh scope, session.rollback(), the same query, its result
ReadRetryOk(w) ==
    /\ pc[w] = "read2"
    /\ Return(w, Query(op[w], versions, users),
              SessionReturn(Attempt(Rollback(Enter(stat[w])))))
    /\ UNCHANGED mgrVars
    /\ UNCHANGED storeVars

\* a retry that, failing, tries once more
ReadRetryError_TriesAgain(w) ==
    /\ pc[w] = "read2"
    /\ Goto(w, "read2", SessionStorageError(Failure(Attempt(Rollback(Enter(stat[w]))))),
            NoSess)
    /\ UNCHANGED mgrVars
    /\ UNCHANGED storeVars

\* the retry fails too: the scope rolls back and closes, the error propagates
ReadRetryError(w) ==
    /\ pc[w] = "read2"
    /\ \E e \in {"OperationalError", "SQLAlchemyError"} :
         Return(w, Raised(e),
                SessionStorageError(Failure(Attempt(Rollback(Enter(stat[w]))))))
    /\ UNCHANGED mgrVars
    /\ UNCHANGED storeVars

\* ------------------------------------------------------------------ writes
\* the session() scope is entered by the first statement of a call
Entered(s) == IF s.entered = s.closes THEN Enter(s) ELSE s

\* users.username without unique=True
UsernameTaken_NoConstraint(U, name) == FALSE

\* the unique constraint on users.username
UsernameTaken(U, name) == \E u \in U : u.username = name

\* hasattr(entity, key): the columns and the other attributes of the mapped class
HasAttr(columns, key) == key \in columns \cup {"to_dict", "query", "metadata"}

\* for key, value in kwargs.items(): if hasattr(entity, key): setattr(entity, key, value)
\* (only a column is stored)
ApplyKwargs(row, kwargs, columns) ==
    [c \in DOMAIN row |->
        IF \E p \in kwargs : p[1] = c /\ HasAttr(columns, p[1])
        THEN (CHOOSE p \in kwargs : p[1] = c)[2]
        ELSE row[c]]

\* what the setattr loop leaves in the instance's own __dict__: the keys that
\* hasattr accepts and that are no column (a method, a class attribute)
InstanceAttrs(kwargs, columns) ==
    {p \in kwargs : HasAttr(columns, p[1]) /\ p[1] \notin columns}

\* the entity object an update returns: its column values and its own attributes
Object(r, attrs) == [kind |-> "row", row |-> r, attrs |-> attrs]

\* the columns the flush writes: those whose value differs from the loaded one
Dirty(loaded, changed) == {c \in DOMAIN loaded : changed[c] # loaded[c]}

\* UPDATE ... SET <dirty columns> WHERE id = loaded.id, on the current row
Flush(current, loaded, changed) ==
    [c \in DOMAIN current |-> IF c \in Dirty(loaded, changed) THEN changed[c] ELSE current[c]]

ReleaseLock(w) == vlock' = vlock \ {w}

UserWriteCalls ==
    {[name |-> "create_user", route |-> "direct", username |-> u,
      password_hash |-> generate_password_hash("pw"), is_subscription |-> FALSE,
      crystal |-> c] : u \in Usernames, c \in CrystalArgs}
    \cup {[name |-> "update_user", route |-> "direct", id |-> i, kwargs |-> k] :
            i \in UserIdArgs, k \in UserKwargs}
    \cup {[name |-> "delete_user", route |-> "direct", id |-> i] : i \in UserIdArgs}

VersionWriteCalls ==
    {[name |-> "create_version", route |-> "direct", version_number |-> l[1],
      version_name |-> l[2], is_active |-> a] : l \in VersionLabels, a \in BOOLEAN}
    \cup {[name |-> "set_active_version", route |-> "direct", id |-> i] : i \in VersionIdArgs}
    \cup {[name |-> "update_version", route |-> "direct", id |-> i, kwargs |-> k] :
            i \in VersionIdArgs, k \in VersionKwargs}
    \cup {[name |-> "delete_version", route |-> "direct", id |-> i] : i \in VersionIdArgs}

UserWrites == {"create_user", "update_user", "delete_user"}
VersionWrites == {"create_version", "set_active_version", "update_version", "delete_version"}

\* What bounds a run: a call that inserts starts only while the autoincrement is
\* within the bound, and a run writes to one of the two tables only (they share
\* no operation, no key and no lock), the other staying as the bootstrap left it.
WithinBounds(o) ==
    /\ o.name = "create_user" \/ o.route = "register" => nextUid <= MaxUserId
    /\ o.name = "create_version" => nextVid <= MaxVersionId
    /\ o.name \in UserWrites \/ o.route = "register" =>
          versions = {GameVersion(1, "1.0.0", "Initial Release", TRUE)} /\ nextVid = 2
    /\ o.name \in VersionWrites => users = {} /\ nextUid = 1

\* create_user: session.add(user); session.commit(); return user
CreateUserCommit(w) ==
    /\ pc[w] = "cu_commit"
    /\ ~UsernameTaken(users, op[w].username)
    /\ LET user == User(nextUid, op[w].username, op[w].password_hash,
                        op[w].is_subscription, op[w].crystal)
       IN /\ users' = users \cup {user}
          /\ nextUid' = nextUid + 1
          /\ Return(w, Row(user), SessionReturn(Commit(Enter(stat[w]))))
    /\ UNCHANGED <<versions, nextVid, vlock>>
    /\ UNCHANGED mgrVars

\* create_user: the INSERT breaks the unique constraint: IntegrityError
CreateUserIntegrityError(w) ==
    /\ pc[w] = "cu_commit"
    /\ UsernameTaken(users, op[w].username)
    /\ Return(w, Raised("IntegrityError"), SessionStorageError(Enter(stat[w])))
    /\ UNCHANGED mgrVars
    /\ UNCHANGED storeVars

\* update_user / delete_user: session.query(User).filter(User.id == user_id).first()
UserSelect(w) ==
    /\ pc[w] \in {"uu_select", "du_select"}
    /\ LET found == First({u \in users : u.id = op[w].id})
       IN IF found = None
          THEN Return(w, IF pc[w] = "uu_select" THEN None ELSE Bool(FALSE),
                      SessionReturn(Enter(stat[w])))
          ELSE Goto(w, IF pc[w] = "uu_select" THEN "uu_commit" ELSE "du_commit",
                    Enter(stat[w]), [sess[w] EXCEPT !.loaded = found])
    /\ UNCHANGED mgrVars
    /\ UNCHANGED storeVars

\* update_user: the setattr loop, session.commit(), return user
UpdateUserCommit(w) ==
    /\ pc[w] = "uu_commit"
    /\ LET loaded == sess[w].loaded.row
           changed == ApplyKwargs(loaded, op[w].kwargs, UserColumns)
           current == {u \in users : u.id = loaded.id}
           attrs == InstanceAttrs(op[w].kwargs, UserColumns)
       IN IF Dirty(loaded, changed) = {}
          THEN /\ UNCHANGED users
               /\ Return(w, Object(changed, attrs), SessionReturn(Commit(stat[w])))
          ELSE IF current = {}
          THEN /\ UNCHANGED users
               /\ Return(w, Raised("StaleDataError"), SessionStorageError(stat[w]))
          ELSE LET row == Flush(CHOOSE u \in current : TRUE, loaded, changed)
               IN /\ users' = (users \ current) \cup {row}
                  /\ Return(w, Object(row, attrs), SessionReturn(Commit(stat[w])))
    /\ UNCHANGED <<versions, nextVid, nextUid, vlock>>
    /\ UNCHANGED mgrVars

\* delete_user: session.delete(user); session.commit(); return True
DeleteUserCommit(w) ==
    /\ pc[w] = "du_commit"
    /\ users' = {u \in users : u.id # sess[w].loaded.row.id}
    /\ Return(w, Bool(TRUE), SessionReturn(Commit(stat[w])))
    /\ UNCHANGED <<versions, nextVid, nextUid, vlock>>
    /\ UNCHANGED mgrVars

\* create_version(is_active=True) without its deactivate-all UPDATE
CreateVersionDeactivate_NoUpdate(w) ==
    /\ pc[w] = "cv_update"
    /\ vlock = {}
    /\ vlock' = {w}
    /\ Goto(w, "cv_commit", Enter(stat[w]), [sess[w] EXCEPT !.tx = TRUE, !.view = versions])
    /\ UNCHANGED <<versions, users, nextVid, nextUid>>
    /\ UNCHANGED <<initialized, initLog>>

\* create_version(is_active=True): UPDATE game_versions SET is_active = false,
\* uncommitted, holding the lock on the rows it scanned
CreateVersionDeactivate(w) ==
    /\ pc[w] = "cv_update"
    /\ vlock = {}
    /\ vlock' = {w}
    /\ Goto(w, "cv_commit", Enter(stat[w]),
            [sess[w] EXCEPT !.tx = TRUE, !.view = DeactivateAll(versions)])
    /\ UNCHANGED <<versions, users, nextVid, nextUid>>
    /\ UNCHANGED mgrVars

\* create_version: session.add(version); session.commit(); return version
CreateVersionCommit(w) ==
    /\ pc[w] = "cv_commit"
    /\ vlock \subseteq {w}
    /\ LET version == GameVersion(nextVid, op[w].version_number, op[w].version_name,
                                  op[w].is_active)
           base == IF sess[w].tx THEN sess[w].view ELSE versions
       IN /\ versions' = base \cup {version}
          /\ nextVid' = nextVid + 1
          /\ Return(w, Row(version), SessionReturn(Commit(Entered(stat[w]))))
    /\ vlock' = {}
    /\ UNCHANGED <<users, nextUid>>
    /\ UNCHANGED mgrVars

\* set_active_version without its deactivate-all UPDATE
SetActiveDeactivate_NoUpdate(w) ==
    /\ pc[w] = "sa_update"
    /\ vlock = {}
    /\ vlock' = {w}
    /\ Goto(w, "sa_select", stat[w], [sess[w] EXCEPT !.tx = TRUE, !.view = versions])
    /\ UNCHANGED <<versions, users, nextVid, nextUid>>
    /\ UNCHANGED <<initialized, initLog>>

\* set_active_version: UPDATE game_versions SET is_active = false, uncommitted
SetActiveDeactivate(w) ==
    /\ pc[w] = "sa_update"
    /\ vlock = {}
    /\ vlock' = {w}
    /\ Goto(w, "sa_select", stat[w],
            [sess[w] EXCEPT !.tx = TRUE, !.view = DeactivateAll(versions)])
    /\ UNCHANGED <<versions, users, nextVid, nextUid>>
    /\ UNCHANGED mgrVars

\* set_active_version: the target query, inside the transaction; `return None`
\* leaves the body when there is no such row
SetActiveSelect(w) ==
    /\ pc[w] = "sa_select"
    /\ LET found == First({v \in sess[w].view : v.id = op[w].id})
       IN /\ pc' = [pc EXCEPT ![w] = IF found = None THEN "sa_exit" ELSE "sa_commit"]
          /\ ret' = [ret EXCEPT ![w] = IF found = None THEN None ELSE Pending]
          /\ sess' = [sess EXCEPT ![w].loaded = found]
    /\ UNCHANGED <<op, stat, pre>>
    /\ UNCHANGED mgrVars
    /\ UNCHANGED storeVars

\* set_active_version: version.is_active = True; session.commit(); return version
SetActiveCommit(w) ==
    /\ pc[w] = "sa_commit"
    /\ LET version == [sess[w].loaded.row EXCEPT !.is_active = TRUE]
       IN /\ versions' = {v \in sess[w].view : v.id # version.id} \cup {version}
          /\ ret' = [ret EXCEPT ![w] = Row(version)]
    /\ vlock' = {}
    /\ pc' = [pc EXCEPT ![w] = "sa_exit"]
    /\ stat' = [stat EXCEPT ![w] = Commit(@)]
    /\ sess' = [sess EXCEPT ![w] = NoSess]
    /\ UNCHANGED <<op, pre>>
    /\ UNCHANGED <<users, nextVid, nextUid>>
    /\ UNCHANGED mgrVars

\* transaction(): the body has returned: db.session.commit()
TransactionExit(w) ==
    /\ pc[w] = "sa_exit"
    /\ versions' = IF sess[w].tx THEN sess[w].view ELSE versions
    /\ ReleaseLock(w)
    /\ Return(w, ret[w], TransactionReturn(stat[w]))
    /\ UNCHANGED <<users, nextVid, nextUid>>
    /\ UNCHANGED mgrVars

\* transaction(): a statement of the body or a commit raises a storage error
TransactionError(w) ==
    /\ pc[w] \in {"sa_update", "sa_select", "sa_commit", "sa_exit"}
    /\ \E e \in {"OperationalError", "SQLAlchemyError"} :
         Return(w, Raised(e), TransactionStorageError(Failure(stat[w])))
    /\ ReleaseLock(w)
    /\ UNCHANGED <<versions, users, nextVid, nextUid>>
    /\ UNCHANGED mgrVars

\* the query by id with .one() for .first(): no row raises NoResultFound
VersionSelect_One(w) ==
    /\ pc[w] \in {"uv_select", "dv_select"}
    /\ LET found == First({v \in versions : v.id = op[w].id})
       IN IF found = None
          THEN Return(w, Raised("NoResultFound"), SessionStorageError(Enter(stat[w])))
          ELSE Goto(w, IF pc[w] = "uv_select" THEN "uv_commit" ELSE "dv_commit",
                    Enter(stat[w]), [sess[w] EXCEPT !.loaded = found])
    /\ UNCHANGED <<initialized, initLog>>
    /\ UNCHANGED <<versions, users, nextVid, nextUid, vlock>>

\* update_version / delete_version: the query by id
VersionSelect(w) ==
    /\ pc[w] \in {"uv_select", "dv_select"}
    /\ LET found == First({v \in versions : v.id = op[w].id})
       IN IF found = None
          THEN Return(w, IF pc[w] = "uv_select" THEN None ELSE Bool(FALSE),
                      SessionReturn(Enter(stat[w])))
          ELSE Goto(w, IF pc[w] = "uv_select" THEN "uv_commit" ELSE "dv_commit",
                    Enter(stat[w]), [sess[w] EXCEPT !.loaded = found])
    /\ UNCHANGED mgrVars
    /\ UNCHANGED storeVars

\* update_version: the setattr loop, session.commit(), return version
UpdateVersionCommit(w) ==
    /\ pc[w] = "uv_commit"
    /\ vlock = {}
    /\ LET loaded == sess[w].loaded.row
           changed == ApplyKwargs(loaded, op[w].kwargs, VersionColumns)
           current == {v \in versions : v.id = loaded.id}
           attrs == InstanceAttrs(op[w].kwargs, VersionColumns)
       IN IF Dirty(loaded, changed) = {}
          THEN /\ UNCHANGED versions
               /\ Return(w, Object(changed, attrs), SessionReturn(Commit(stat[w])))
          ELSE IF current = {}
          THEN /\ UNCHANGED versions
               /\ Return(w, Raised("StaleDataError"), SessionStorageError(stat[w]))
          ELSE LET row == Flush(CHOOSE v \in current : TRUE, loaded, changed)
               IN /\ versions' = (versions \ current) \cup {row}
                  /\ Return(w, Object(row, attrs), SessionReturn(Commit(stat[w])))
    /\ UNCHANGED <<users, nextVid, nextUid, vlock>>
    /\ UNCHANGED mgrVars

\* delete_version: session.delete(version); session.commit(); return True
DeleteVersionCommit(w) ==
    /\ pc[w] = "dv_commit"
    /\ vlock = {}
    /\ versions' = {v \in versions : v.id # sess[w].loaded.row.id}
    /\ Return(w, Bool(TRUE), SessionReturn(Commit(stat[w])))
    /\ UNCHANGED <<users, nextVid, nextUid, vlock>>
    /\ UNCHANGED mgrVars

\* a statement or the commit of a writing call in a session() scope raises an
\* injected storage error: rollback, close, re-raise
WriteError(w) ==
    /\ pc[w] \in {"cu_commit", "uu_select", "uu_commit", "du_select", "du_commit",
                  "cv_update", "cv_commit", "uv_select", "uv_commit", "dv_select",
                  "dv_commit"}
    /\ \E e \in {"OperationalError", "SQLAlchemyError"} :
         Return(w, Raised(e), SessionStorageError(Failure(Entered(stat[w]))))
    /\ ReleaseLock(w)
    /\ UNCHANGED <<versions, users, nextVid, nextUid>>
    /\ UNCHANGED mgrVars

\* ------------------------------------------------------------------ start
Init ==
    /\ initialized = FALSE
    /\ initLog = NoInit
    /\ versions = {}
    /\ users = {}
    /\ nextVid = 1
    /\ nextUid = 1
    /\ vlock = {}
    /\ pc = [w \in Workers |-> "idle"]
    /\ op = [w \in Workers |-> NoCall]
    /\ ret = [w \in Workers |-> Pending]
    /\ sess = [w \in Workers |-> NoSess]
    /\ stat = [w \in Workers |-> NoStat]
    /\ pre = [w \in Workers |-> NoPre]

\* The process starts on a store an earlier process left behind: game_versions
\* holds any rows, none, one or several of them active; the autoincrement goes on
\* after the highest id.
PriorRows == {GameVersion(i, "1.1.0", "Patch", a) : i \in 1..MaxVersionId, a \in BOOLEAN}
PriorTables == {T \in SUBSET PriorRows : \A a, b \in T : a.id = b.id => a = b}
NextId(T) == IF T = {} THEN 1 ELSE 1 + (CHOOSE i \in {r.id : r \in T} : \A r \in T : r.id <= i)

InitBoot ==
    /\ initialized = FALSE
    /\ versions \in PriorTables
    /\ initLog = [NoInit EXCEPT !.schema = (versions # {})]
    /\ users = {}
    /\ nextVid = NextId(versions)
    /\ nextUid = 1
    /\ vlock = {}
    /\ pc = [w \in Workers |-> "idle"]
    /\ op = [w \in Workers |-> NoCall]
    /\ ret = [w \in Workers |-> Pending]
    /\ sess = [w \in Workers |-> NoSess]
    /\ stat = [w \in Workers |-> NoStat]
    /\ pre = [w \in Workers |-> NoPre]

\* ------------------------------------------------------------------ /register
\* a POST /register carrying username and password
RegisterCalls ==
    {[name |-> "get_user_by_username", route |-> "register", username |-> u,
      password |-> "pw", is_subscription |-> FALSE, crystal |-> c] :
        u \in Usernames, c \in CrystalArgs}

Response(status, body) == [kind |-> "response", status |-> status, body |-> body]

\* register(): the existence check has answered; "User exists", or on to create_user
RegisterCheck(w) ==
    /\ pc[w] = "done"
    /\ op[w].route = "register"
    /\ op[w].name = "get_user_by_username"
    /\ IF ret[w].kind = "absent"
       THEN /\ pc' = [pc EXCEPT ![w] = "cu_commit"]
            /\ op' = [op EXCEPT ![w] =
                        [name |-> "create_user", route |-> "register",
                         username |-> op[w].username,
                         password_hash |-> generate_password_hash(op[w].password),
                         is_subscription |-> op[w].is_subscription,
                         crystal |-> op[w].crystal]]
            /\ ret' = [ret EXCEPT ![w] = Pending]
            /\ stat' = [stat EXCEPT ![w] = NoStat]
            /\ pre' = [pre EXCEPT ![w] = [versions |-> versions, users |-> users,
                                          initLog |-> initLog]]
       ELSE /\ pc' = [pc EXCEPT ![w] = "responded"]
            /\ ret' = [ret EXCEPT ![w] =
                        IF ret[w].kind = "raised" THEN Response(500, ret[w].err)
                        ELSE Response(400, "User exists")]
            /\ UNCHANGED <<op, stat, pre>>
    /\ UNCHANGED sess
    /\ UNCHANGED mgrVars
    /\ UNCHANGED storeVars

\* register(): create_user has returned the user or raised; 200 or 500
RegisterRespond(w) ==
    /\ pc[w] = "done"
    /\ op[w].route = "register"
    /\ op[w].name = "create_user"
    /\ pc' = [pc EXCEPT ![w] = "responded"]
    /\ ret' = [ret EXCEPT ![w] =
                IF ret[w].kind = "raised" THEN Response(500, ret[w].err)
                ELSE Response(200, ret[w].row.id)]
    /\ UNCHANGED <<op, stat, pre, sess>>
    /\ UNCHANGED mgrVars
    /\ UNCHANGED storeVars

\* ------------------------------------------------------------------ specifications
DirectCalls == UserReadCalls \cup VersionReadCalls \cup UserWriteCalls \cup VersionWriteCalls

\* one worker serves one request at a time; statements may fail
Next ==
    \/ InitAppOk \/ InitAppFail \/ InitAppAgain(1)
    \/ \E o \in DirectCalls \cup RegisterCalls : WithinBounds(o) /\ Call(1, o)
    \/ Ack(1)
    \/ ReadFirstOk(1) \/ ReadVerifyRaises(1) \/ ReadFirstTransient(1) \/ ReadFirstError(1)
    \/ ReadRetryOk(1) \/ ReadRetryError(1)
    \/ CreateUserCommit(1) \/ CreateUserIntegrityError(1) \/ UserSelect(1)
    \/ UpdateUserCommit(1) \/ DeleteUserCommit(1)
    \/ CreateVersionDeactivate(1) \/ CreateVersionCommit(1)
    \/ SetActiveDeactivate(1) \/ SetActiveSelect(1) \/ SetActiveCommit(1)
    \/ TransactionExit(1) \/ TransactionError(1)
    \/ VersionSelect(1) \/ UpdateVersionCommit(1) \/ DeleteVersionCommit(1)
    \/ WriteError(1)
    \/ RegisterCheck(1) \/ RegisterRespond(1)

Spec == Init /\ [][Next]_vars

\* two workers interleave statement by statement: registrations, activations
\* (create_version(is_active=True), set_active_version) and version reads
ConcurrentCalls ==
    {o \in RegisterCalls : o.crystal = 0}
    \cup {o \in VersionWriteCalls :
            \/ o.name = "set_active_version"
            \/ o.name = "create_version" /\ o.is_active /\ o.version_number = "1.1.0"}
    \cup {o \in VersionReadCalls : o.name \in {"get_latest_version", "get_all_versions"}}

NextConc ==
    \/ InitAppOk
    \/ \E w \in Workers :
         \/ \E o \in ConcurrentCalls : WithinBounds(o) /\ Call(w, o)
         \/ Ack(w)
         \/ ReadFirstOk(w)
         \/ CreateUserCommit(w) \/ CreateUserIntegrityError(w)
         \/ CreateVersionDeactivate(w) \/ CreateVersionCommit(w)
         \/ SetActiveDeactivate(w) \/ SetActiveSelect(w) \/ SetActiveCommit(w)
         \/ TransactionExit(w)
         \/ RegisterCheck(w) \/ RegisterRespond(w)

SpecConc == Init /\ [][NextConc]_vars

\* one worker, activations only: create_version(is_active=True) and
\* set_active_version on existing and on missing ids; statements may fail
ActivationCalls ==
    {o \in VersionWriteCalls :
        o.name = "set_active_version" \/ (o.name = "create_version" /\ o.is_active)}

NextActivate ==
    \/ InitAppOk
    \/ \E o \in ActivationCalls : WithinBounds(o) /\ Call(1, o)
    \/ Ack(1)
    \/ CreateVersionDeactivate(1) \/ CreateVersionCommit(1)
    \/ SetActiveDeactivate(1) \/ SetActiveSelect(1) \/ SetActiveCommit(1)
    \/ TransactionExit(1) \/ TransactionError(1)
    \/ WriteError(1)

SpecActivate == Init /\ [][NextActivate]_vars

\* the start of a process on a store left behind, and version reads after it
NextBoot ==
    \/ InitAppOk \/ InitAppFail \/ InitAppAgain(1)
    \/ \E o \in VersionReadCalls : Call(1, o)
    \/ Ack(1)
    \/ ReadFirstOk(1)

SpecBoot == InitBoot /\ [][NextBoot]_vars

\* a caller that calls set_active_version(x) and, when it has returned, calls
\* set_active_version(x) again, on a store left behind with any rows active
TwiceCalls ==
    {[name |-> "set_active_version", route |-> "twice", id |-> i] : i \in VersionIdArgs}

\* the second call of the pair; the first call's result, the table it found and
\* the table it left are kept with the call
CallAgain(w) ==
    /\ pc[w] = "done"
    /\ op[w].route = "twice"
    /\ pc' = [pc EXCEPT ![w] = FirstPc(op[w])]
    /\ op' = [op EXCEPT ![w] =
                [name |-> op[w].name, route |-> "again", id |-> op[w].id,
                 first |-> [ret |-> ret[w], found |-> pre[w].versions,
                            versions |-> versions]]]
    /\ ret' = [ret EXCEPT ![w] = Pending]
    /\ stat' = [stat EXCEPT ![w] = NoStat]
    /\ sess' = [sess EXCEPT ![w] = NoSess]
    /\ pre' = [pre EXCEPT ![w] = [versions |-> versions, users |-> users,
                                  initLog |-> initLog]]
    /\ UNCHANGED mgrVars
    /\ UNCHANGED storeVars

NextTwice ==
    \/ InitAppOk
    \/ \E o \in TwiceCalls : Call(1, o)
    \/ CallAgain(1)
    \/ Ack(1)
    \/ SetActiveDeactivate(1) \/ SetActiveSelect(1) \/ SetActiveCommit(1)
    \/ TransactionExit(1)

SpecTwice == InitBoot /\ [][NextTwice]_vars

\* create_version(is_active=True) on a store left behind, emptied or not by
\* delete_version, with the version reads that look at the outcome; the store
\* takes one version more than the rows it may start with
CreateCalls ==
    {o \in VersionWriteCalls :
        \/ o.name = "create_version" /\ o.is_active
        \/ o.name = "delete_version"}
    \cup VersionReadCalls

RoomForOne(o) == o.name = "create_version" => nextVid <= MaxVersionId + 1

NextCreate ==
    \/ InitAppOk
    \/ \E o \in CreateCalls : RoomForOne(o) /\ Call(1, o)
    \/ Ack(1)
    \/ ReadFirstOk(1)
    \/ CreateVersionDeactivate(1) \/ CreateVersionCommit(1)
    \/ VersionSelect(1) \/ DeleteVersionCommit(1)

SpecCreate == InitBoot /\ [][NextCreate]_vars

\* ------------------------------------------------------------------ claims
Quiet(w) == pc[w] \in {"idle", "done", "responded"}
Missing(id, table) == \A v \in table : v.id # id

\* C1: under SpecActivate (one worker, only create_version(is_active=True) and
\* set_active_version calls on a bootstrapped store), whenever no call is in
\* progress the table holds exactly one active row, or none only when it has no rows.
C1_ExactlyOneActiveAfterEachCall ==
    (initialized /\ Quiet(1)) =>
        \/ Cardinality(ActiveRows(versions)) = 1
        \/ versions = {}

\* C2: the committed game_versions table never holds more than one active row.
C2_AtMostOneActive == Cardinality(ActiveRows(versions)) <= 1

\* C3: a finished set_active_version call (the one user of the write scope) has
\* made exactly one commit and no rollback, or exactly one rollback and no commit,
\* the body's own commit counted.
C3_OneCommitOrOneRollback ==
    \A w \in Workers :
        (pc[w] = "done" /\ op[w].name = "set_active_version") =>
            \/ stat[w].commits = 1 /\ stat[w].rollbacks = 0
            \/ stat[w].commits = 0 /\ stat[w].rollbacks = 1

\* C4: a set_active_version call on an id the table does not hold, none of whose
\* statements failed, returns None having committed nothing: the committed table
\* is the one the call found.
C4_MissingIdAbortsWithoutEffect ==
    (/\ pc[1] = "done"
     /\ op[1].name = "set_active_version"
     /\ Missing(op[1].id, pre[1].versions)
     /\ stat[1].failures = 0) =>
        /\ ret[1] = None
        /\ stat[1].commits = 0
        /\ versions = pre[1].versions

\* what a finished version read has seen: the active rows of its result
ActiveSeen(w) ==
    IF ret[w].kind = "rows" THEN {i \in 1..Len(ret[w].rows) : ret[w].rows[i].is_active}
    ELSE IF ret[w].kind = "row" THEN {1}
    ELSE {}

\* C5: under SpecConc, a get_latest_version or get_all_versions call that began
\* while another worker was inside create_version(is_active=True) or
\* set_active_version, started on a table with exactly one active row, sees
\* exactly one active version.
C5_ReaderSeesExactlyOneActive ==
    \A w \in Workers :
        (/\ pc[w] = "done"
         /\ op[w].name \in {"get_latest_version", "get_all_versions"}
         /\ stat[w].overlap) =>
            Cardinality(ActiveSeen(w)) = 1

\* C6: a finished get_user_by_id, get_user_by_username or get_latest_version call
\* whose first attempt failed with OperationalError and whose second attempt did
\* not fail has raised nothing and returned what its query gives on the store.
C6_SingleTransientFailureRecovered ==
    \A w \in Workers :
        (/\ pc[w] = "done"
         /\ op[w].name \in RetryReads
         /\ stat[w].attempts = 2
         /\ stat[w].failures = 1) =>
            ret[w] = Query(op[w], versions, users)

C6_Witness ==
    \E w \in Workers :
        /\ pc[w] = "done"
        /\ op[w].name = "get_user_by_username"
        /\ stat[w].attempts = 2
        /\ stat[w].failures = 1
        /\ ret[w].kind = "row"

\* C7: no call issues more than two query attempts; a retrying read whose second
\* attempt failed too has raised the error after exactly two attempts, with both
\* scopes closed and the retry scope rolled back (the first scope's rollback, the
\* defensive one and the retry scope's) and nothing left in the session.
C7_SecondFailurePropagates ==
    \A w \in Workers :
        /\ stat[w].attempts <= 2
        /\ (/\ pc[w] = "done"
            /\ op[w].name \in RetryReads
            /\ stat[w].failures = 2) =>
               /\ ret[w].kind = "raised"
               /\ stat[w].attempts = 2
               /\ stat[w].entered = 2
               /\ stat[w].closes = 2
               /\ stat[w].rollbacks = 3
               /\ sess[w] = NoSess

C7_Witness ==
    \E w \in Workers :
        /\ pc[w] = "done"
        /\ op[w].name = "get_latest_version"
        /\ stat[w].failures = 2
        /\ ret[w] = Raised("OperationalError")

\* the repository calls that run in the read scope
SessionCalls == RetryReads \cup PlainReads \cup UserWrites
                \cup {"create_version", "update_version", "delete_version"}

\* C8: a read scope is open only in the middle of a call and at most one at a
\* time; every scope entered has been closed, once, when the call has returned
\* or raised (a storage error, the verify function's exception, an early return),
\* and every such call has entered a scope.
C8_EveryScopeClosedOnce ==
    \A w \in Workers :
        /\ stat[w].closes <= stat[w].entered
        /\ stat[w].entered <= stat[w].closes + 1
        /\ Quiet(w) => stat[w].entered = stat[w].closes
        /\ (pc[w] = "done" /\ op[w].name \in SessionCalls) => stat[w].entered >= 1

C8_Witness ==
    \E w \in Workers :
        /\ pc[w] = "done"
        /\ op[w].name = "authenticate_user"
        /\ ret[w] = Raised("VerifyError")
        /\ stat[w].entered = 1
        /\ stat[w].closes = 1

\* both workers have passed the existence check of /register for one username
\* and both create_user calls are over
Raced(w, v) ==
    /\ w # v
    /\ pc[w] = "done" /\ pc[v] = "done"
    /\ op[w].route = "register" /\ op[v].route = "register"
    /\ op[w].name = "create_user" /\ op[v].name = "create_user"
    /\ op[w].username = op[v].username

\* C9: under SpecConc, no two stored users share a username; and of two
\* registrations of one username that both passed the existence check, one
\* create_user returned its row and the other raised IntegrityError with its
\* scope rolled back and closed, nothing committed, the winner's row being the
\* only row of that name.
C9_UsernameUniqueUnderRace ==
    /\ \A a, b \in users : a.username = b.username => a = b
    /\ \A w, v \in Workers :
         Raced(w, v) =>
            \E win \in {w, v} :
                LET lose == CHOOSE x \in {w, v} : x # win
                IN /\ ret[win].kind = "row"
                   /\ ret[lose] = Raised("IntegrityError")
                   /\ stat[lose].rollbacks = 1
                   /\ stat[lose].commits = 0
                   /\ stat[lose].closes = stat[lose].entered
                   /\ sess[lose] = NoSess
                   /\ {u \in users : u.username = op[win].username} = {ret[win].row}

C9_Witness == Raced(1, 2)

\* C10: the seed has been inserted at most once; and an init_app call on the
\* initialized manager has left the manager initialized and has changed neither
\* the schema, nor the seed count, nor any stored row, also when the version
\* table was empty.
C10_InitAppIdempotent ==
    /\ initLog.seeds <= 1
    /\ \A w \in Workers :
         (pc[w] = "done" /\ op[w].name = "init_app") =>
            /\ initialized
            /\ initLog = pre[w].initLog
            /\ versions = pre[w].versions
            /\ users = pre[w].users

C10_Witness ==
    \E w \in Workers :
        /\ pc[w] = "done"
        /\ op[w].name = "init_app"
        /\ versions = {}
        /\ initLog.seeds = 1

\* C11: under SpecBoot (a process starting on a store that holds any version
\* rows, with no write after the start): once init_app has succeeded the version
\* table is not empty; it holds the default version ("1.0.0", "Initial Release",
\* active) as its only row, inserted once, when init_app found the table empty,
\* and exactly the rows init_app found, nothing inserted, otherwise.  When the
\* last init_app call raised, the manager is not marked initialized.
C11_BootstrapSeedsOnlyWhenEmpty ==
    /\ initLog.raised => ~initialized
    /\ initialized =>
         /\ versions # {}
         /\ IF initLog.found = {}
            THEN /\ initLog.seeds = 1
                 /\ \E v \in versions :
                      /\ versions = {v}
                      /\ v.version_number = "1.0.0"
                      /\ v.version_name = "Initial Release"
                      /\ v.is_active
            ELSE /\ initLog.seeds = 0
                 /\ versions = initLog.found

C11_Witness ==
    /\ initialized
    /\ initLog.found # {}
    /\ ActiveRows(versions) = {}
    /\ pc[1] = "done"
    /\ op[1].name = "get_latest_version"
    /\ ret[1] = None

\* C12: under SpecTwice (set_active_version(x) called twice in a row on a table
\* with no, one or several active rows, no statement failing), for an id x the
\* table holds: the first call returns row x, active, and leaves it the only
\* active row; the second call returns the same row and leaves the same table.
C12_SetActiveTwiceSameState ==
    \A w \in Workers :
        /\ (/\ pc[w] = "done"
            /\ op[w].route = "twice"
            /\ ~Missing(op[w].id, pre[w].versions)) =>
               /\ ret[w].kind = "row"
               /\ ret[w].row.id = op[w].id
               /\ ret[w].row.is_active
               /\ ActiveRows(versions) = {ret[w].row}
        /\ (/\ pc[w] = "done"
            /\ op[w].route = "again"
            /\ ~Missing(op[w].id, op[w].first.found)) =>
               /\ ret[w].kind = "row"
               /\ ret[w].row.id = op[w].id
               /\ ret[w] = op[w].first.ret
               /\ versions = op[w].first.versions
               /\ ActiveRows(versions) = {ret[w].row}

C12_Witness ==
    \E w \in Workers :
        /\ pc[w] = "done"
        /\ op[w].route = "again"
        /\ Cardinality(ActiveRows(op[w].first.found)) = 2
        /\ ret[w].kind = "row"
        /\ Cardinality(versions) = 2

\* C13: under SpecCreate, when create_version(number, name, is_active=True) has
\* returned, on an empty table or one holding any rows: it returned a row with a
\* new id, the given number and name, active; that row is the only active row;
\* get_version_by_id of every row the call found gives that row with
\* is_active = false; and get_latest_version gives the new row.
C13_CreatedActiveVersionIsLatest ==
    \A w \in Workers :
        (/\ pc[w] = "done"
         /\ op[w].name = "create_version"
         /\ op[w].is_active) =>
            /\ ret[w].kind = "row"
            /\ Missing(ret[w].row.id, pre[w].versions)
            /\ ret[w].row.version_number = op[w].version_number
            /\ ret[w].row.version_name = op[w].version_name
            /\ ret[w].row.is_active
            /\ ActiveRows(versions) = {ret[w].row}
            /\ \A r \in pre[w].versions :
                  Query([name |-> "get_version_by_id", id |-> r.id], versions, users)
                      = Row([r EXCEPT !.is_active = FALSE])
            /\ Query([name |-> "get_latest_version"], versions, users) = ret[w]

C13_Witness ==
    \E w \in Workers :
        /\ pc[w] = "done"
        /\ op[w].name = "create_version"
        /\ Cardinality(ActiveRows(pre[w].versions)) = 2
        /\ ret[w].kind = "row"
        /\ Cardinality(versions) = 3

\* C14: a finished authenticate_user call none of whose statements failed has
\* changed no stored row and has raised only when the verify function itself
\* raised; for a username no user has it returned status false, "not found", no
\* user, without calling verify (also a verify that would raise); for a stored
\* user and check_password_hash it returned status true with that user when the
\* password matches the stored hash, and status false, "wrong password", no
\* user when it does not.
C14_AuthenticateStructuredResult ==
    \A w \in Workers :
        (/\ pc[w] = "done"
         /\ op[w].name = "authenticate_user"
         /\ stat[w].failures = 0) =>
            LET match == {u \in pre[w].users : u.username = op[w].username}
            IN /\ users = pre[w].users
               /\ versions = pre[w].versions
               /\ ret[w].kind = "raised" => (op[w].verify = "raises" /\ match # {})
               /\ match = {} =>
                     /\ ret[w].kind = "auth"
                     /\ ~ret[w].status
                     /\ ret[w].message = "not found"
                     /\ ret[w].user = None
               /\ \A u \in match :
                     op[w].verify = "check_password_hash" =>
                        /\ ret[w].kind = "auth"
                        /\ ret[w].status = (u.password_hash = generate_password_hash(op[w].password))
                        /\ ret[w].status => ret[w].user = Row(u)
                        /\ ~ret[w].status =>
                              ret[w].message = "wrong password" /\ ret[w].user = None

C14_Witness ==
    \E w \in Workers :
        /\ pc[w] = "done"
        /\ op[w].name = "authenticate_user"
        /\ op[w].username = "bob"
        /\ op[w].password = "wrongpw"
        /\ \E u \in users : u.username = "bob"
        /\ ret[w].kind = "auth"
        /\ ~ret[w].status
        /\ ret[w].message = "wrong password"

Updates == {"update_user", "update_version"}
Deletes == {"delete_user", "delete_version"}
\* the table the call is about, as the call found it
Found(w) == IF op[w].name \in UserWrites THEN pre[w].users ELSE pre[w].versions

\* C15: a finished update_user, update_version, delete_user or delete_version
\* call none of whose statements failed: on an id the table does not hold it has
\* raised nothing, returned None (update) or False (delete) and left both tables
\* as it found them; a delete on an id the table holds has returned True and
\* removed that row and no other, the other table untouched.
C15_MissingIdIsAbsentNotError ==
    \A w \in Workers :
        (/\ pc[w] = "done"
         /\ op[w].name \in Updates \cup Deletes
         /\ stat[w].failures = 0) =>
            IF Missing(op[w].id, Found(w))
            THEN /\ ret[w] = IF op[w].name \in Updates THEN None ELSE Bool(FALSE)
                 /\ users = pre[w].users
                 /\ versions = pre[w].versions
            ELSE op[w].name \in Deletes =>
                 /\ ret[w] = Bool(TRUE)
                 /\ users = IF op[w].name = "delete_user"
                            THEN {u \in pre[w].users : u.id # op[w].id} ELSE pre[w].users
                 /\ versions = IF op[w].name = "delete_version"
                               THEN {v \in pre[w].versions : v.id # op[w].id}
                               ELSE pre[w].versions

C15_Witness ==
    \E w \in Workers :
        /\ pc[w] = "done"
        /\ op[w].name = "delete_version"
        /\ Missing(op[w].id, pre[w].versions)
        /\ Cardinality(versions) = 2
        /\ ret[w] = Bool(FALSE)

Columns(w) == IF op[w].name \in UserWrites THEN UserColumns ELSE VersionColumns

\* C16: a finished update_user or update_version call on an id the table holds,
\* none of whose statements failed, has raised nothing and has applied the keys
\* of its mapping that are columns of the entity and no other key: the returned
\* entity and the stored row are the row the call found with those columns set,
\* the entity carries no attribute set from another key, and every other row
\* and the other table are as the call found them.
C16_UpdateAppliesOnlyDataAttributes ==
    \A w \in Workers :
        (/\ pc[w] = "done"
         /\ op[w].name \in Updates
         /\ stat[w].failures = 0
         /\ ~Missing(op[w].id, Found(w))) =>
            LET old == CHOOSE r \in Found(w) : r.id = op[w].id
                known == {p \in op[w].kwargs : p[1] \in Columns(w)}
                expected == [c \in DOMAIN old |->
                               IF \E p \in known : p[1] = c
                               THEN (CHOOSE p \in known : p[1] = c)[2]
                               ELSE old[c]]
                table == (Found(w) \ {old}) \cup {expected}
            IN /\ ret[w].kind = "row"
               /\ ret[w].row = expected
               /\ ret[w].attrs = {}
               /\ users = IF op[w].name = "update_user" THEN table ELSE pre[w].users
               /\ versions = IF op[w].name = "update_version" THEN table
                             ELSE pre[w].versions

RepositoryCalls == RetryReads \cup PlainReads \cup UserWrites \cup VersionWrites
StorageErrors == {"OperationalError", "SQLAlchemyError", "IntegrityError", "StaleDataError"}

\* C17: of a finished repository call: every statement or commit that raised a
\* storage error was followed by a rollback in its scope; the error was not
\* swallowed (the call raised, unless it is a retrying read whose one failure
\* the method itself caught); and when the call raised a storage error nothing
\* of its writes is committed: both tables are as the call found them.
C17_RollbackBeforeReraise ==
    \A w \in Workers :
        (pc[w] = "done" /\ op[w].name \in RepositoryCalls) =>
            /\ stat[w].rollbacks >= stat[w].failures
            /\ (stat[w].failures > 0 /\ op[w].name \notin RetryReads) =>
                  ret[w].kind = "raised"
            /\ stat[w].failures > 1 => ret[w].kind = "raised"
            /\ (ret[w].kind = "raised" /\ ret[w].err \in StorageErrors) =>
                  /\ stat[w].rollbacks >= 1
                  /\ sess[w] = NoSess
                  /\ versions = pre[w].versions
                  /\ users = pre[w].users

\* C18: a writing call (create_user, update_user, delete_user, create_version,
\* update_version, delete_version, set_active_version) is never retried: it
\* enters at most one scope and issues at most one commit; the first statement
\* or commit that raises an injected storage error ends the call, which raises
\* that kind of error; and a call that failed so has left both tables as it
\* found them.
C18_WritesNeverRetried ==
    \A w \in Workers :
        op[w].name \in UserWrites \cup VersionWrites =>
            /\ stat[w].entered <= 1
            /\ stat[w].commits <= 1
            /\ stat[w].failures <= 1
            /\ stat[w].failures = 1 =>
                  /\ pc[w] \in {"done", "responded"}
                  /\ pc[w] = "done" =>
                        /\ ret[w].kind = "raised"
                        /\ ret[w].err \in {"OperationalError", "SQLAlchemyError"}
                  /\ versions = pre[w].versions
                  /\ users = pre[w].users

\* C19: a finished read call of either repository (get_user_by_id,
\* get_user_by_username, get_latest_version, and also authenticate_user,
\* get_all_users, get_version_by_id, get_all_versions) whose one failed
\* statement failed with the transient OperationalError has made a second
\* attempt and has returned what its query gives on the store, not the error.
C19_EveryReadRetriedOnce ==
    \A w \in Workers :
        (/\ pc[w] = "done"
         /\ op[w].name \in RetryReads \cup PlainReads
         /\ stat[w].failures = 1
         /\ ret[w] # Raised("SQLAlchemyError")) =>
            /\ stat[w].attempts = 2
            /\ ret[w] = Query(op[w], versions, users)

\* C20: every stored user has a crystal balance of zero or more, whatever
\* create_user (directly or by /register) and update_user were given.
C20_CrystalNeverNegative == \A u \in users : u.crystal >= 0
====
